---------------------------- MODULE Spec2Model ----------------------------
(***************************************************************************)
(* SetMeUp: the plan store and apply engine (src/setmeup/plan.py) and the  *)
(* configuration resolver (src/setmeup/config.py).                         *)
(*                                                                         *)
(* Spec       : a plan loaded from the plan store is applied, re-saved and *)
(*              re-loaded (cli.handle_apply_command, Plan.apply).          *)
(* SpecConfig : configuration documents are resolved (YamlConfig).         *)
(***************************************************************************)
EXTENDS Integers, Sequences, FiniteSets, Bags, TLC

\* ----------------------------------------------------------------- bounds
\* Largest number of steps of a plan.
MaxSteps == 3
\* Number of apply calls followed in one behaviour.
MaxApplies == 2
\* Number of configuration documents.
MaxDocs == 3
\* Largest number of inherits entries over all documents together.
MaxEdges == 3
\* Nesting depth of document loads at which the interpreter gives up with a
\* RecursionError; no acyclic configuration of MaxDocs documents reaches it.
RecursionLimit == 6

\* ------------------------------------------------------------ option type
\* Python's None and a present value.
None == <<>>
Some(x) == <<x>>
IsSome(o) == o # None
Val(o) == o[1]

\* Python truthiness of an optional string (None and '' are falsy).
Truthy(o) == IsSome(o) /\ Val(o) # ""

\* --------------------------------------------------------------- host model
StepIds == 1..MaxSteps

\* File contents: "c0" is the content at planning time, "c1" an edited one.
Contents == {"c0", "c1"}
Missing == "missing"

\* Paths of the plan store.
DEFAULT_PLAN_FILE_NAME == "setmeup_plan.yaml"
PlanPaths == {DEFAULT_PLAN_FILE_NAME, "other_plan.yaml"}

\* hashlib.sha256(...).hexdigest(): collision free on the modelled contents.
Sha256(text) == "sha256:" \o text

TYPE_STRING == "string"
TYPE_FILE == "file"

\* Path of the script or manifest of step i, and the inline command of step i.
PathOf(i) == "dir/file" \o ToString(i)
CmdOf(i) == "cmd" \o ToString(i)
FilePaths == {PathOf(i) : i \in StepIds}

VARIABLES
    plan,        \* the Plan object: setmeup_version, required_env_vars, steps_to_execute, _filename
    files,       \* host: content of each script / manifest file, or Missing
    satisfied,   \* host: whether the validation command of step i exits zero
    environ,     \* os.environ restricted to the plan's variables
    storeFiles,  \* host: lines of each store_in file (None when the file does not exist)
    planFiles,   \* the plan store: the YAML document at each path (None when absent)
    pc,          \* position of the running apply, "idle" when none runs
    idx,         \* loop index of the running apply
    applies,     \* number of apply calls started; also the clock of datetime.now()
    outcome,     \* how the last apply ended: "none", "Done", "Halted", "Aborted", "Raised"
    log,         \* what the running (or last) apply did, in order
    pre,         \* snapshot taken when the running (or last) apply started
    cfg          \* state of the configuration resolver (SpecConfig)

vars == <<plan, files, satisfied, environ, storeFiles, planFiles, pc, idx,
          applies, outcome, log, pre, cfg>>

applyVars == <<plan, files, satisfied, environ, storeFiles, planFiles, pc, idx,
               applies, outcome, log, pre>>


\* ------------------------------------------------------------ checksum service
\* utils.checksum_from_file: None stands for the raised Exception (file not found).
ChecksumFromFile(path, fs) ==
    IF fs[path] = Missing THEN None ELSE Some(Sha256(fs[path]))

\* utils.checksum_from_string
ChecksumFromString(string) == Sha256(string)

\* A variant that trusts the stored value of a file checksum instead of reading
\* the file again.
TestIfChecksumsEqual_Stale(cs, fs) ==
    IF cs.checksum_type = TYPE_FILE
    THEN IF ChecksumFromFile(cs.origin, fs) = None THEN "raise" ELSE "equal"
    ELSE IF cs.checksum_type = TYPE_STRING
    THEN IF ChecksumFromString(cs.origin) = cs.value THEN "equal" ELSE "differ"
    ELSE "raise"

\* PlanStepChechsum.test_if_checksums_equal(self.value): "equal", "differ", or
\* "raise" (file not found, or NotImplementedError for an unknown type).
TestIfChecksumsEqual(cs, fs) ==
    IF cs.checksum_type = TYPE_FILE
    THEN IF ChecksumFromFile(cs.origin, fs) = None THEN "raise"
         ELSE IF Val(ChecksumFromFile(cs.origin, fs)) = cs.value THEN "equal"
         ELSE "differ"
    ELSE IF cs.checksum_type = TYPE_STRING
    THEN IF ChecksumFromString(cs.origin) = cs.value THEN "equal" ELSE "differ"
    ELSE "raise"

\* ------------------------------------------------------------------ plan steps
\* A variant that never runs the validation command.
CheckIfStepRan_NeverRuns(validation, host) == None

\* check_if_step_ran(validation), which plan.py and config.py import from
\* utils: None when there is no validation command, otherwise whether the
\* command exits zero (utils.py lines 316-320 hold its body).  host is the
\* answer the command would give now.
CheckIfStepRan(validation, host) ==
    IF Truthy(validation) THEN Some(host) ELSE None

\* A variant that takes the stored skip flag for the answer.
CheckIfRan_TrustsSkip(step, host) ==
    IF step.skip THEN Some(TRUE) ELSE CheckIfStepRan(step.validation, host)

\* PlanStep.check_if_ran
CheckIfRan(step, host) == CheckIfStepRan(step.validation, host)

\* A variant that takes every outcome but False for success.
IsTrue_NoneIsTrue(r) == r # Some(FALSE)

\* Python truthiness of the Optional[bool] that check_if_step_ran returns.
IsTrue(r) == IsSome(r) /\ Val(r)

\* A variant that runs the command with check=False.
StepRun_Unchecked(exitCode) == "ok"

\* PlanStep.run: subprocess.run(..., check=True) raises CalledProcessError on a
\* nonzero exit code.
StepRun(exitCode) == IF exitCode = 0 THEN "ok" ELSE "CalledProcessError"

\* PlanStep.__init__ applied to a mapping d (a YAML mapping or keyword arguments):
\* executed_at defaults to None, skip to False.
PlanStep(d) ==
    [name |-> d.name,
     description |-> d.description,
     checksum |-> [value |-> d.checksum.value, origin |-> d.checksum.origin,
                   checksum_type |-> d.checksum.checksum_type],
     execute |-> d.execute,
     validation |-> d.validation,
     executed_at |-> IF "executed_at" \in DOMAIN d THEN d.executed_at ELSE None,
     skip |-> IF "skip" \in DOMAIN d THEN d.skip ELSE FALSE]

\* A variant that drops the validation command as it drops executed_at.
PlanStepToDict_DropsValidation(step) ==
    [name |-> step.name,
     description |-> step.description,
     checksum |-> [value |-> step.checksum.value, origin |-> step.checksum.origin,
                   checksum_type |-> step.checksum.checksum_type],
     execute |-> step.execute,
     validation |-> None,
     skip |-> step.skip]

\* PlanStep.to_dict
PlanStepToDict(step) ==
    [name |-> step.name,
     description |-> step.description,
     checksum |-> [value |-> step.checksum.value, origin |-> step.checksum.origin,
                   checksum_type |-> step.checksum.checksum_type],
     execute |-> step.execute,
     validation |-> step.validation,
     skip |-> step.skip]

\* PlanEnvironmentVariable.__init__ and to_dict
PlanEnvironmentVariable(d) ==
    [name |-> d.name, description |-> d.description,
     store_in |-> d.store_in, value |-> d.value]

PlanEnvVarToDict(var) ==
    [name |-> var.name, description |-> var.description,
     store_in |-> var.store_in, value |-> var.value]

\* The mapping Plan.save_to_file dumps; now is datetime.now().
PlanToDoc(p, now) ==
    [setmeup_version |-> p.setmeup_version,
     generated_at |-> now,
     required_env_vars |-> [i \in 1..Len(p.required_env_vars) |-> PlanEnvVarToDict(p.required_env_vars[i])],
     steps_to_execute |-> [i \in 1..Len(p.steps_to_execute) |-> PlanStepToDict(p.steps_to_execute[i])]]

\* The Plan that Plan.load_from_file builds from the document at filename.
PlanFromDoc(doc, filename) ==
    [setmeup_version |-> doc.setmeup_version,
     required_env_vars |-> [i \in 1..Len(doc.required_env_vars) |-> PlanEnvironmentVariable(doc.required_env_vars[i])],
     steps_to_execute |-> [i \in 1..Len(doc.steps_to_execute) |-> PlanStep(doc.steps_to_execute[i])],
     filename |-> Some(filename)]


\* ------------------------------------------------------ environment variables
EnvNames == {"TOKEN", "EDITOR"}
StorePaths == {"~/.profile"}

\* What the operator may type at the input() prompt.
PromptInputs == {"typed"}

\* A line of a store_in file: <<"export", NAME, value>> is `export NAME="value"`,
\* <<"blank">> an empty line.  Every line is taken to end with a newline.
ExportLine(name, value) == <<"export", name, value>>
BlankLine == <<"blank">>

\* A variant that matches without the = sign, and so also the assignment of a
\* variable whose name goes on after name.
AssignsVar_WithoutEquals(line, name) ==
    line[1] = "export" /\ line[2] \in {name, name \o "2"}

\* line.strip().startswith(f'export {name}=')
AssignsVar(line, name) == line[1] = "export" /\ line[2] = name

\* PlanEnvironmentVariable.set_value: the resulting os.environ.
SetValue(var, value, env) ==
    IF Truthy(env[var.name]) THEN env
    ELSE [env EXCEPT ![var.name] = Some(value)]

\* A variant that appends the assignment without looking for a line to replace.
StoreValue_AlwaysAppends(var, value, sf) ==
    IF ~Truthy(var.store_in) THEN sf
    ELSE LET path == Val(var.store_in)
             lines == IF IsSome(sf[path]) THEN Val(sf[path]) ELSE <<>>
         IN  [sf EXCEPT ![path] =
                 Some(lines \o <<BlankLine, ExportLine(var.name, value)>>)]

\* PlanEnvironmentVariable.store_value: the resulting store_in files.
StoreValue(var, value, sf) ==
    IF ~Truthy(var.store_in) THEN sf
    ELSE LET path == Val(var.store_in)
             lines == IF IsSome(sf[path]) THEN Val(sf[path]) ELSE <<>>
             rewritten == [k \in 1..Len(lines) |->
                              IF AssignsVar(lines[k], var.name)
                              THEN ExportLine(var.name, value) ELSE lines[k]]
             file_updated == \E k \in 1..Len(lines) : AssignsVar(lines[k], var.name)
         IN  [sf EXCEPT ![path] =
                 Some(IF file_updated THEN rewritten
                      ELSE rewritten \o <<BlankLine, ExportLine(var.name, value)>>)]

\* ------------------------------------------------------------- the apply engine
Event(op, step, res) == [op |-> op, step |-> step, res |-> res]

Steps == plan.steps_to_execute
NumSteps == Len(plan.steps_to_execute)
Now == applies

\* A variant that builds the document but writes it nowhere.
SaveToFileStore_NoWrite(p, filename, now, store) == store

\* Plan.save_to_file(filename): the plan store afterwards.
SaveToFileStore(p, filename, now, store) ==
    [store EXCEPT ![filename] = Some(PlanToDoc(p, now))]

\* A variant that lets save_to_file fall back to its default filename.
ApplySavePath_Default(p) == DEFAULT_PLAN_FILE_NAME

\* The filename argument apply passes to save_to_file.
ApplySavePath(p) == Val(p.filename)

\* Plan.apply is entered (cli.handle_apply_command line 17).
ApplyStart ==
    /\ pc = "idle"
    /\ applies < MaxApplies
    /\ pc' = "Validating"
    /\ idx' = 1
    /\ applies' = applies + 1
    /\ log' = <<>>
    /\ pre' = [environ |-> environ, storeFiles |-> storeFiles, plan |-> plan,
               planFiles |-> planFiles, satisfied |-> satisfied]
    /\ UNCHANGED <<plan, files, satisfied, environ, storeFiles, planFiles, outcome, cfg>>

\* One iteration of the pre-check loop (plan.py lines 233-239), or its end.
ApplyPreCheck ==
    /\ pc = "Validating"
    /\ IF idx > NumSteps
       THEN /\ pc' = "SettingEnv"
            /\ idx' = 1
            /\ log' = log
       ELSE LET r == TestIfChecksumsEqual(Steps[idx].checksum, files)
            IN  /\ log' = Append(log, Event("checksum", idx, r))
                /\ pc' = CASE r = "equal" -> "Validating"
                           [] r = "differ" -> "Aborted"
                           [] OTHER -> "Raised"
                /\ idx' = IF r = "equal" THEN idx + 1 ELSE idx
    /\ UNCHANGED <<plan, files, satisfied, environ, storeFiles, planFiles,
                   applies, outcome, pre, cfg>>

\* One iteration of the environment loop (plan.py lines 242-247), or its end.
ApplySetEnv ==
    /\ pc = "SettingEnv"
    /\ IF idx > Len(plan.required_env_vars)
       THEN /\ pc' = "Executing"
            /\ idx' = 1
            /\ UNCHANGED <<environ, storeFiles, log>>
       ELSE LET var == plan.required_env_vars[idx]
            IN  \E typed \in PromptInputs :
                  LET prompted == var.value = None
                      value == IF prompted THEN typed ELSE Val(var.value)
                      env2 == SetValue(var, value, environ)
                      sf2 == StoreValue(var, value, storeFiles)
                  IN  /\ ~prompted => typed = "typed"
                      /\ environ' = env2
                      /\ storeFiles' = sf2
                      /\ log' = log
                            \o (IF prompted THEN <<Event("input", 0, var.name)>> ELSE <<>>)
                            \o (IF ~Truthy(environ[var.name])
                                THEN <<Event("environ_set", 0, var.name)>> ELSE <<>>)
                            \o (IF Truthy(var.store_in) THEN <<Event("store_write", 0, var.name)>> ELSE <<>>)
                      /\ pc' = pc
                      /\ idx' = idx + 1
    /\ UNCHANGED <<plan, files, satisfied, planFiles, applies, outcome, pre, cfg>>


\* A variant that forgets the stamp.
StampExecutedAt_Forgotten(p, i, now) == p

\* step.executed_at = datetime.now() for the i-th step (plan.py line 270).
StampExecutedAt(p, i, now) ==
    [p EXCEPT !.steps_to_execute[i].executed_at = Some(now)]

\* A variant that reports a failed validation as a success.
ReportOf_FailureIsCompleted(validation_passed) ==
    IF validation_passed = None THEN "unverified" ELSE "completed"

\* The report of a step whose execute command exited zero, by the outcome of
\* the validation re-run (plan.py lines 263-269): an info for None, a success
\* for True, an error for False.
ReportOf(validation_passed) ==
    IF validation_passed = None THEN "unverified"
    ELSE IF Val(validation_passed) THEN "completed"
    ELSE "not_completed"

\* A variant that goes through every step twice.
NextStep_Twice(i) == IF \E k \in 1..Len(log) : log[k].op = "validate" /\ log[k].step = i
                     THEN i + 1 ELSE i

\* The for loop over steps_to_execute moves on to the next step (plan.py line
\* 250), after a continue or at the end of the loop body.
NextStep(i) == i + 1

\* Exit codes an execute command may return.
ExitCodes == {0, 1}

\* One iteration of the execute loop (plan.py lines 250-270), or its end.
ApplyExecute ==
    /\ pc = "Executing"
    /\ IF idx > NumSteps
       THEN /\ pc' = "Done"
            /\ UNCHANGED <<idx, log, plan, satisfied>>
       ELSE LET step == Steps[idx]
                ran == CheckIfRan(step, satisfied[idx])
            IN  IF IsTrue(ran)
                THEN /\ log' = log \o <<Event("validate", idx, ran), Event("skipped", idx, None)>>
                     /\ idx' = NextStep(idx)
                     /\ UNCHANGED <<pc, plan, satisfied>>
                ELSE \E exitCode \in ExitCodes, effect \in BOOLEAN :
                       IF StepRun(exitCode) = "CalledProcessError"
                       THEN /\ effect = FALSE
                            /\ log' = log \o <<Event("validate", idx, ran),
                                               Event("execute", idx, Some(exitCode)),
                                               Event("failed", idx, None)>>
                            /\ pc' = "Halted"
                            /\ UNCHANGED <<idx, plan, satisfied>>
                       ELSE LET host2 == IF Truthy(step.validation) THEN effect ELSE satisfied[idx]
                                validation_passed == CheckIfRan(step, host2)
                                report == ReportOf(validation_passed)
                            IN  /\ Truthy(step.validation) \/ effect = FALSE
                                /\ satisfied' = [satisfied EXCEPT ![idx] = host2]
                                /\ log' = log \o <<Event("validate", idx, ran),
                                                   Event("execute", idx, Some(exitCode)),
                                                   Event("validate", idx, validation_passed),
                                                   Event(report, idx, None)>>
                                /\ plan' = StampExecutedAt(plan, idx, Now)
                                /\ idx' = NextStep(idx)
                                /\ pc' = pc
    /\ UNCHANGED <<files, environ, storeFiles, planFiles, applies, outcome, pre, cfg>>

\* The loop has ended, normally or by break: save_to_file(self._filename)
\* (plan.py line 271), then apply returns.
ApplyPersist ==
    /\ pc \in {"Done", "Halted"}
    /\ planFiles' = SaveToFileStore(plan, ApplySavePath(plan), Now, planFiles)
    /\ plan' = [plan EXCEPT !.filename = Some(ApplySavePath(plan))]
    /\ log' = Append(log, Event("save", 0, Some(ApplySavePath(plan))))
    /\ outcome' = pc
    /\ pc' = "idle"
    /\ UNCHANGED <<files, satisfied, environ, storeFiles, idx, applies, pre, cfg>>

\* apply returns from the pre-check loop (plan.py line 239), or an exception of
\* the checksum service leaves it.
ApplyReturn ==
    /\ pc \in {"Aborted", "Raised"}
    /\ outcome' = pc
    /\ pc' = "idle"
    /\ UNCHANGED <<plan, files, satisfied, environ, storeFiles, planFiles, idx,
                   applies, log, pre, cfg>>

\* Plan.load_from_file(filename) replaces the plan object (cli.py line 16).
LoadFromFile(filename) ==
    /\ pc = "idle"
    /\ IsSome(planFiles[filename])
    /\ plan' = PlanFromDoc(Val(planFiles[filename]), filename)
    /\ UNCHANGED <<files, satisfied, environ, storeFiles, planFiles, pc, idx,
                   applies, outcome, log, pre, cfg>>

\* ------------------------------------------------------------------------ Init
StepKinds == {"brew", "inline", "script"}

\* The plan steps that the step kinds lower to (config.py lines 76-89, 114-135):
\* a brew bundle, an inline command with a completion check, and a script file
\* without one.
MkStep(i, kind) ==
    CASE kind = "brew" ->
           PlanStep([name |-> "Install Brew Bundle", description |-> "d",
                     checksum |-> [value |-> Sha256("c0"), origin |-> PathOf(i),
                                   checksum_type |-> TYPE_FILE],
                     execute |-> "brew bundle --file " \o PathOf(i) \o " --no-lock",
                     validation |-> Some("brew bundle check --file " \o PathOf(i)),
                     skip |-> TRUE])
      [] kind = "inline" ->
           PlanStep([name |-> "Execute Script " \o CmdOf(i), description |-> "d",
                     checksum |-> [value |-> Sha256(CmdOf(i)), origin |-> CmdOf(i),
                                   checksum_type |-> TYPE_STRING],
                     execute |-> CmdOf(i),
                     validation |-> Some("check" \o ToString(i)),
                     skip |-> FALSE])
      [] OTHER ->
           PlanStep([name |-> "Execute Script " \o PathOf(i), description |-> "d",
                     checksum |-> [value |-> Sha256("c0"), origin |-> PathOf(i),
                                   checksum_type |-> TYPE_FILE],
                     execute |-> "/bin/bash " \o PathOf(i),
                     validation |-> None,
                     skip |-> FALSE])

RequiredEnvVars ==
    << PlanEnvironmentVariable([name |-> "TOKEN", description |-> "d",
                                store_in |-> Some("~/.profile"), value |-> Some("planned")]),
       PlanEnvironmentVariable([name |-> "EDITOR", description |-> "d",
                                store_in |-> None, value |-> None]) >>

CfgIdle == [phase |-> "off"]

\* A plan was compiled, saved and loaded again; the host may have changed since:
\* at most one script or manifest file was edited or removed.
Init ==
    \E path \in PlanPaths, kinds \in [StepIds -> StepKinds] :
      LET p0 == [setmeup_version |-> "1.0",
                 required_env_vars |-> RequiredEnvVars,
                 steps_to_execute |-> [i \in StepIds |-> MkStep(i, kinds[i])],
                 filename |-> Some(path)]
      IN  /\ plan = p0
          /\ planFiles = [q \in PlanPaths |-> IF q = path THEN Some(PlanToDoc(p0, 0)) ELSE None]
          /\ files \in [FilePaths -> Contents \cup {Missing}]
          /\ Cardinality({f \in FilePaths : files[f] # "c0"}) <= 1
          /\ \A i \in StepIds : kinds[i] = "inline" => files[PathOf(i)] = "c0"
          /\ satisfied \in [StepIds -> BOOLEAN]
          /\ \A i \in StepIds : kinds[i] = "script" => satisfied[i] = FALSE
          /\ environ = [v \in EnvNames |-> None]
          /\ storeFiles = [q \in StorePaths |-> None]
          /\ pc = "idle"
          /\ idx = 1
          /\ applies = 0
          /\ outcome = "none"
          /\ log = <<>>
          /\ pre = [environ |-> environ, storeFiles |-> storeFiles, plan |-> plan,
                    planFiles |-> planFiles, satisfied |-> satisfied]
          /\ cfg = CfgIdle

Next ==
    \/ ApplyStart
    \/ ApplyPreCheck
    \/ ApplySetEnv
    \/ ApplyExecute
    \/ ApplyPersist
    \/ ApplyReturn
    \/ \E filename \in PlanPaths : LoadFromFile(filename)

Spec == Init /\ [][Next]_vars

\* The steps of a running apply.  apply is one sequential call: once started
\* it runs on by itself, given that every external command returns.
ApplyRuns ==
    \/ ApplyPreCheck
    \/ ApplySetEnv
    \/ ApplyExecute
    \/ ApplyPersist
    \/ ApplyReturn

\* The kind of the i-th step of the plans of the termination runs: a brew
\* bundle, an inline command and a script in turn.
KindAt(i) == IF i % 3 = 1 THEN "brew" ELSE IF i % 3 = 2 THEN "inline" ELSE "script"

\* Like Init, for the plan of these kinds saved at the default path.
InitLive ==
    LET p0 == [setmeup_version |-> "1.0",
               required_env_vars |-> RequiredEnvVars,
               steps_to_execute |-> [i \in StepIds |-> MkStep(i, KindAt(i))],
               filename |-> Some(DEFAULT_PLAN_FILE_NAME)]
    IN  /\ plan = p0
        /\ planFiles = [q \in PlanPaths |->
                           IF q = DEFAULT_PLAN_FILE_NAME THEN Some(PlanToDoc(p0, 0)) ELSE None]
        /\ files \in [FilePaths -> Contents \cup {Missing}]
        /\ Cardinality({f \in FilePaths : files[f] # "c0"}) <= 1
        /\ \A i \in StepIds : KindAt(i) = "inline" => files[PathOf(i)] = "c0"
        /\ satisfied \in [StepIds -> BOOLEAN]
        /\ \A i \in StepIds : KindAt(i) = "script" => satisfied[i] = FALSE
        /\ environ = [v \in EnvNames |-> None]
        /\ storeFiles = [q \in StorePaths |-> None]
        /\ pc = "idle"
        /\ idx = 1
        /\ applies = 0
        /\ outcome = "none"
        /\ log = <<>>
        /\ pre = [environ |-> environ, storeFiles |-> storeFiles, plan |-> plan,
                  planFiles |-> planFiles, satisfied |-> satisfied]
        /\ cfg = CfgIdle

\* The termination runs: an apply keeps running once it was started; whether
\* apply or load_from_file is called at all is left to the caller.
SpecLive == InitLive /\ [][Next]_vars /\ WF_vars(ApplyRuns)

\* ------------------------------------------------- Init of the env-var runs
\* A line of a store_in file that is no assignment of the tool's form.
TextLine(text) == <<"text", text>>

\* The store_in file before the first apply: absent, empty, holding an
\* assignment of TOKEN, or holding one between other lines, one of which
\* assigns a variable whose name starts with TOKEN.
StoreFileContents ==
    { None,
      Some(<<>>),
      Some(<<ExportLine("TOKEN", "stored")>>),
      Some(<<TextLine("# profile"), ExportLine("TOKEN2", "x"),
             ExportLine("TOKEN", "stored"), ExportLine("PATH", "/bin")>>),
      Some(<<ExportLine("TOKEN2", "x"), TextLine("# profile")>>) }

\* The required env vars of the plans of the env-var runs: the two of
\* RequiredEnvVars, a prompted variable that is stored, and two stored
\* variables sharing one file.
EnvVarLists ==
    { RequiredEnvVars,
      << PlanEnvironmentVariable([name |-> "TOKEN", description |-> "d",
                                  store_in |-> Some("~/.profile"), value |-> None]) >>,
      << PlanEnvironmentVariable([name |-> "TOKEN", description |-> "d",
                                  store_in |-> Some("~/.profile"), value |-> Some("planned")]),
         PlanEnvironmentVariable([name |-> "EDITOR", description |-> "d",
                                  store_in |-> Some("~/.profile"), value |-> Some("vi")]) >> }

\* Like Init, for plans of brew bundles that are all installed or all missing,
\* with any of the env-var lists, a process environment in which each variable
\* may be set already, and any of the store_in files.
InitEnv ==
    \E envVars \in EnvVarLists, allSatisfied \in BOOLEAN :
      LET p0 == [setmeup_version |-> "1.0",
                 required_env_vars |-> envVars,
                 steps_to_execute |-> [i \in StepIds |-> MkStep(i, "brew")],
                 filename |-> Some(DEFAULT_PLAN_FILE_NAME)]
      IN  /\ plan = p0
          /\ planFiles = [q \in PlanPaths |->
                             IF q = DEFAULT_PLAN_FILE_NAME THEN Some(PlanToDoc(p0, 0)) ELSE None]
          /\ files \in [FilePaths -> Contents \cup {Missing}]
          /\ Cardinality({f \in FilePaths : files[f] # "c0"}) <= 1
          /\ satisfied = [i \in StepIds |-> allSatisfied]
          /\ environ \in [EnvNames -> {None, Some("old")}]
          /\ storeFiles \in [StorePaths -> StoreFileContents]
          /\ pc = "idle"
          /\ idx = 1
          /\ applies = 0
          /\ outcome = "none"
          /\ log = <<>>
          /\ pre = [environ |-> environ, storeFiles |-> storeFiles, plan |-> plan,
                    planFiles |-> planFiles, satisfied |-> satisfied]
          /\ cfg = CfgIdle

SpecEnv == InitEnv /\ [][Next]_vars


\* ==================================================== configuration resolver
Docs == 1..MaxDocs

\* The env_vars a document declares: one under a name of its own and, except in
\* document 1, one under a name the other documents use too.  value tells the
\* declaring document.
OwnEnvVars(d) ==
    (IF d = 1 THEN <<>>
     ELSE << [name |-> "SHARED", value |-> Some("v" \o ToString(d)),
              store_in |-> None, description |-> ""] >>)
    \o << [name |-> "OWN" \o ToString(d), value |-> Some("v" \o ToString(d)),
           store_in |-> None, description |-> ""] >>

\* The steps a document declares, in declaration order.
OwnSteps(d) == << [doc |-> d, pos |-> 1], [doc |-> d, pos |-> 2] >>

\* A set of EnvironmentVariable objects.  The class defines __hash__ but no
\* __eq__, so two objects are equal only when they are the same object: a set
\* of freshly built objects keeps every one of them, and is the bag of their
\* contents.
NewObjects(seq) ==
    [e \in {seq[k] : k \in 1..Len(seq)} |-> Cardinality({k \in 1..Len(seq) : seq[k] = e})]

\* set.update with objects none of which is in the set yet.
SetUpdate(set, others) == set (+) others

Raise(error) == [error |-> error]
Failed(c) == c.error # ""

\* The directory of document d, os.path.dirname(self.filepath): document 1 lies
\* in the working directory, every other document in a directory of its own.
DocDir(d) == IF d = 1 THEN "" ELSE "conf" \o ToString(d)

\* os.path.join of a directory and a relative path.
JoinPath(base, rel) == IF base = "" THEN rel ELSE base \o "/" \o rel

\* The step mapping at position s.pos of document s.doc.  The first step of a
\* document with an even number is a brew bundle with the manifest Brewfile
\* next to the document, that of any other document the script setup.sh next
\* to the document; the second step is an inline command.  The script steps
\* of every third document have no completion_check.
StepDecl(s) ==
    IF s.pos = 1 /\ s.doc % 2 = 0
    THEN [brewfile |-> Some("Brewfile"), script |-> None,
          description |-> "d", completion_check |-> None]
    ELSE [brewfile |-> None,
          script |-> Some(IF s.pos = 1 THEN "setup.sh" ELSE "echo " \o ToString(s.doc)),
          description |-> "d",
          completion_check |-> IF s.doc % 3 = 0 THEN None
                               ELSE Some("test -e done" \o ToString(s.doc) \o ToString(s.pos))]

\* The paths the host is asked about.
ConfigPaths ==
    {"Brewfile"} \cup {JoinPath(DocDir(d), f) : d \in Docs, f \in {"Brewfile", "setup.sh"}}

\* What a file holds tells the file.
ContentOf(path) == "content of " \o path

\* The files of the host, seen from the working directory: the manifest or the
\* script next to each document and, if stray, a Brewfile in the working
\* directory that belongs to no document.
HostFiles(stray) ==
    [q \in ConfigPaths |->
        IF \/ stray /\ q = "Brewfile"
           \/ \E d \in Docs : /\ d % 2 = 0
                               /\ q = JoinPath(DocDir(d), "Brewfile")
           \/ \E d \in Docs : /\ d % 2 = 1
                               /\ q = JoinPath(DocDir(d), "setup.sh")
        THEN ContentOf(q) ELSE Missing]

\* The kinds of validation command that exit zero on the host.
HostOutcomes == SUBSET {"brew", "check"}

\* os.path.isfile
IsFile(path, fs) == path \in DOMAIN fs /\ fs[path] # Missing

\* A variant that takes a path for a command.
GetFileContentOrCommand_NeverReads(script, fs) == script

\* get_file_content_or_command: the content of the file, or the command itself.
GetFileContentOrCommand(script, fs) == IF IsFile(script, fs) THEN fs[script] ELSE script

\* The SetupStep object that parse_steps builds for a step mapping (config.py
\* lines 160-167 and the constructors): its _checksum is taken at construction
\* and is None where checksum_from_file raises for a missing file.
SetupStep(s, fs) ==
    LET decl == StepDecl(s)
    IN  IF Truthy(decl.brewfile)
        THEN [type |-> "brewfile",
              brewfile |-> Val(decl.brewfile),
              description |-> decl.description,
              completion_check |-> decl.completion_check,
              checksum |-> ChecksumFromFile(Val(decl.brewfile), fs)]
        ELSE LET base_path == DocDir(s.doc)
                 is_file == IsFile(JoinPath(base_path, Val(decl.script)), fs)
                 script == IF is_file THEN JoinPath(base_path, Val(decl.script))
                           ELSE Val(decl.script)
             IN  [type |-> "script",
                  script |-> script,
                  description |-> decl.description,
                  completion_check |-> decl.completion_check,
                  checksum |-> Some(ChecksumFromString(GetFileContentOrCommand(script, fs)))]

\* parse_steps raises: the manifest of one of the document's steps is missing.
ParseStepsRaises(d, fs) ==
    \E k \in 1..Len(OwnSteps(d)) : SetupStep(OwnSteps(d)[k], fs).checksum = None

\* The validation command of the step exits zero on the host.
HostSatisfies(step, ok) == (IF step.type = "brewfile" THEN "brew" ELSE "check") \in ok

\* A variant that takes an outcome that is not False for True.
SkipOrFalse_NoneIsTrue(r) == r # Some(FALSE)

\* skip or False in PlanStep.__init__, of the Optional[bool] of check_if_step_ran.
SkipOrFalse(r) == IsTrue(r)

\* BrewfileSetupStep.to_plan_format_v1 and ScriptSetupStep.to_plan_format_v1.
ToPlanFormatV1(step, fs, ok) ==
    IF step.type = "brewfile"
    THEN LET validation_command == "brew bundle check --file " \o step.brewfile
         IN  PlanStep([name |-> "Install Brew Bundle",
                       description |-> step.description,
                       checksum |-> [value |-> Val(step.checksum),
                                     origin |-> step.brewfile,
                                     checksum_type |-> TYPE_FILE],
                       execute |-> "brew bundle --file " \o step.brewfile \o " --no-lock",
                       validation |-> Some(validation_command),
                       skip |-> SkipOrFalse(CheckIfStepRan(Some(validation_command),
                                                           HostSatisfies(step, ok)))])
    ELSE LET is_file == IsFile(step.script, fs)
             validation_command ==
                 IF IsSome(step.completion_check) /\ IsFile(Val(step.completion_check), fs)
                 THEN Some("/bin/bash " \o Val(step.completion_check))
                 ELSE step.completion_check
         IN  PlanStep([name |-> "Execute Script " \o step.script,
                       description |-> step.description,
                       checksum |-> [value |-> Val(step.checksum),
                                     origin |-> step.script,
                                     checksum_type |-> IF is_file THEN TYPE_FILE ELSE TYPE_STRING],
                       execute |-> IF is_file THEN "/bin/bash " \o step.script ELSE step.script,
                       validation |-> validation_command,
                       skip |-> SkipOrFalse(CheckIfStepRan(validation_command,
                                                           HostSatisfies(step, ok)))])

\* The plan steps of a config, in the order of its steps.
LoweredSteps(config, fs, ok) ==
    [i \in 1..Len(config.steps) |-> ToPlanFormatV1(SetupStep(config.steps[i], fs), fs, ok)]

\* A variant that leaves out the steps found satisfied, as Plan.from_yaml_config
\* of utils.py leaves out the steps marked to skip.
YamlConfigPlan_DropsSkipped(config, fs, ok) ==
    [setmeup_version |-> "1.0",
     required_env_vars |-> config.env_vars,
     steps_to_execute |-> SelectSeq(LoweredSteps(config, fs, ok), LAMBDA st : ~st.skip),
     filename |-> None]

\* YamlConfig.plan.  required_env_vars lists the elements of the env_vars set
\* in the order the set yields them, which the string hash seed of the process
\* decides: it is kept as the bag of its elements, each one the
\* PlanEnvironmentVariable with the fields of its EnvironmentVariable.
YamlConfigPlan(config, fs, ok) ==
    [setmeup_version |-> "1.0",
     required_env_vars |-> config.env_vars,
     steps_to_execute |-> LoweredSteps(config, fs, ok),
     filename |-> None]

\* The mapping Plan.save_to_file dumps for a plan of YamlConfig.plan.
CompiledPlanToDoc(p, now) ==
    [setmeup_version |-> p.setmeup_version,
     generated_at |-> now,
     required_env_vars |-> p.required_env_vars,
     steps_to_execute |-> [i \in 1..Len(p.steps_to_execute) |->
                              PlanStepToDict(p.steps_to_execute[i])]]

RECURSIVE YamlConfig(_, _, _)
RECURSIVE ParseInheritedConfigs(_, _, _)
RECURSIVE InheritLoop(_, _, _, _, _)

\* A variant that ends with what was inherited alone.
InheritLoop_ForgetsOwn(docs, self, k, acc, depth) ==
    IF k > Len(self.inherits)
    THEN [self EXCEPT !.env_vars = acc.new_env_vars,
                      !.steps = acc.new_steps]
    ELSE LET loaded == YamlConfig(docs, self.inherits[k], depth + 1)
         IN  IF Failed(loaded) THEN loaded
             ELSE LET inherited_config == ParseInheritedConfigs(docs, loaded, depth + 1)
                  IN  IF Failed(inherited_config) THEN inherited_config
                      ELSE InheritLoop(docs, self, k + 1,
                               [new_env_vars |-> SetUpdate(acc.new_env_vars,
                                                           inherited_config.env_vars),
                                new_steps |-> acc.new_steps \o inherited_config.steps],
                               depth)

\* The loop of parse_inherited_configs from its k-th inherits entry on
\* (config.py lines 174-181), then lines 184-187.
InheritLoop(docs, self, k, acc, depth) ==
    IF k > Len(self.inherits)
    THEN [self EXCEPT !.env_vars = SetUpdate(acc.new_env_vars, self.env_vars),
                      !.steps = acc.new_steps \o self.steps]
    ELSE LET loaded == YamlConfig(docs, self.inherits[k], depth + 1)
         IN  IF Failed(loaded) THEN loaded
             ELSE LET inherited_config == ParseInheritedConfigs(docs, loaded, depth + 1)
                  IN  IF Failed(inherited_config) THEN inherited_config
                      ELSE InheritLoop(docs, self, k + 1,
                               [new_env_vars |-> SetUpdate(acc.new_env_vars,
                                                           inherited_config.env_vars),
                                new_steps |-> acc.new_steps \o inherited_config.steps],
                               depth)

\* YamlConfig.parse_inherited_configs: the config object afterwards, or the
\* exception that left it.
ParseInheritedConfigs(docs, self, depth) ==
    InheritLoop(docs, self, 1, [new_env_vars |-> EmptyBag, new_steps |-> <<>>], depth)

\* YamlConfig(filepath): __init__ and load_yaml.  docs[d] is the inherits list
\* of document d; depth is the number of document loads in progress.  The
\* steps are built, and their checksums taken, from the files of the host
\* before the inherited documents are loaded.
YamlConfig(docs, filepath, depth) ==
    IF depth >= RecursionLimit THEN Raise("RecursionError")
    ELSE IF ParseStepsRaises(filepath, cfg.fs) THEN Raise("Exception: file not found")
    ELSE ParseInheritedConfigs(docs,
             [error |-> "",
              filepath |-> filepath,
              inherits |-> docs[filepath],
              env_vars |-> NewObjects(OwnEnvVars(filepath)),
              steps |-> OwnSteps(filepath)],
             depth)

\* Number of inherits entries of all documents together.
NumEdges(docs) == Cardinality({xk \in Docs \X (1..MaxDocs) : xk[2] <= Len(docs[xk[1]])})

\* The operator writes one more inherits entry into a document.
DeclareInherits(d, e) ==
    /\ cfg.phase = "edit"
    /\ NumEdges(cfg.docs) < MaxEdges
    /\ \A k \in 1..Len(cfg.docs[d]) : cfg.docs[d][k] # e
    /\ cfg' = [cfg EXCEPT !.docs[d] = Append(@, e)]
    /\ UNCHANGED applyVars

\* cli.handle_plan_command: config = YamlConfig(config_file), then
\* plan = config.plan() and plan.save_to_file(); an exception of the load ends
\* the command with neither.
LoadConfig(root) ==
    /\ cfg.phase = "edit"
    /\ LET config == YamlConfig(cfg.docs, root, 0)
           compiled == YamlConfigPlan(config, cfg.fs, cfg.ok)
       IN  cfg' = [cfg EXCEPT
                     !.phase = "loaded", !.root = root, !.config = config,
                     !.plan = IF Failed(config) THEN None
                              ELSE Some([compiled EXCEPT
                                           !.filename = Some(DEFAULT_PLAN_FILE_NAME)]),
                     !.document = IF Failed(config) THEN None
                                  ELSE Some(CompiledPlanToDoc(compiled, 0))]
    /\ UNCHANGED applyVars

InitConfig ==
    /\ \E stray \in BOOLEAN, ok \in HostOutcomes :
          cfg = [phase |-> "edit", docs |-> [d \in Docs |-> <<>>], root |-> 0,
                 config |-> Raise("not loaded"),
                 fs |-> HostFiles(stray), ok |-> ok,
                 plan |-> None, document |-> None]
    /\ plan = None
    /\ files = None
    /\ satisfied = None
    /\ environ = None
    /\ storeFiles = None
    /\ planFiles = None
    /\ pc = "off"
    /\ idx = 0
    /\ applies = 0
    /\ outcome = "none"
    /\ log = <<>>
    /\ pre = None

NextConfig ==
    \/ \E d \in Docs, e \in Docs : DeclareInherits(d, e)
    \/ \E root \in Docs : LoadConfig(root)

SpecConfig == InitConfig /\ [][NextConfig]_vars

\* ===================================================================== claims
\* Positions of the log holding one of the given operations.
LogAt(ops) == {k \in 1..Len(log) : log[k].op \in ops}

\* The digest recomputed from the step's origin and checksum type differs from
\* the stored one.
Drifted(step) ==
    IF step.checksum.checksum_type = TYPE_FILE
    THEN /\ ChecksumFromFile(step.checksum.origin, files) # None
         /\ Val(ChecksumFromFile(step.checksum.origin, files)) # step.checksum.value
    ELSE ChecksumFromString(step.checksum.origin) # step.checksum.value

\* An apply has returned and no other call has started since.
Returned == pc = "idle" /\ outcome # "none"

\* The steps whose execute command exited zero in the running (or last) apply.
ExecutedOk == {log[k].step : k \in {j \in LogAt({"execute"}) : log[j].res = Some(0)}}

\* C1: when some step's recomputed checksum differs from the stored one, apply
\* sets no environment variable, writes no store_in file, asks for no value,
\* and runs no validation or execute command: it ends Aborted (or with the
\* exception of a missing file) with the environment and the store_in files as
\* they were when it started.
C1_ChecksumGate ==
    (\E i \in 1..NumSteps : Drifted(Steps[i])) =>
        /\ LogAt({"input", "environ_set", "store_write", "validate", "execute"}) = {}
        /\ environ = pre.environ
        /\ storeFiles = pre.storeFiles
        /\ pc \in {"idle", "Validating", "Aborted", "Raised"}
        /\ outcome \in {"none", "Aborted", "Raised"}

C1_Witness ==
    /\ Returned
    /\ outcome = "Aborted"
    /\ Len(log) = NumSteps
    /\ Drifted(Steps[NumSteps])

\* C2: once the execute command of step k has exited nonzero, the apply runs no
\* validation or execute command any more: the failed execute is the last
\* command of the log and every command before it belongs to a step up to k.
C2_HaltOnFailure ==
    \A k \in LogAt({"execute"}) :
        log[k].res # Some(0) =>
            /\ \A j \in LogAt({"validate", "execute"}) : j <= k /\ log[j].step <= log[k].step
            /\ pc \in {"Halted", "idle"}

C2_Witness ==
    /\ pc = "Halted"
    /\ idx > 1
    /\ idx < NumSteps
    /\ \E k \in LogAt({"execute"}) : log[k].res = Some(1) /\ log[k].step = idx

\* C3: after an apply halted at step k, the re-saved plan file carries the
\* executed_at stamp of every step executed before k, and none for step k and
\* the steps after it.
C3_PartialFailureDurable ==
    (Returned /\ outcome = "Halted") =>
        LET doc == Val(planFiles[Val(plan.filename)])
        IN  \A i \in 1..Len(doc.steps_to_execute) :
              IF i \in ExecutedOk
              THEN /\ "executed_at" \in DOMAIN doc.steps_to_execute[i]
                   /\ doc.steps_to_execute[i].executed_at = Some(applies)
              ELSE \/ "executed_at" \notin DOMAIN doc.steps_to_execute[i]
                   \/ doc.steps_to_execute[i].executed_at # Some(applies)

\* C4: a second (or later) apply of the unmodified plan that starts when every
\* step has a validation command and that command reports success runs no
\* execute command: every step is skipped as already satisfied.
C4_ApplyIdempotent ==
    (/\ applies >= 2
     /\ \A i \in 1..NumSteps : Truthy(Steps[i].validation) /\ pre.satisfied[i]) =>
        /\ LogAt({"execute"}) = {}
        /\ pc = "idle" => outcome \in {"Done", "Aborted", "Raised"}
        /\ (pc = "idle" /\ outcome = "Done") =>
               {log[k].step : k \in LogAt({"skipped"})} = 1..NumSteps

C4_Witness ==
    /\ Returned
    /\ applies = 2
    /\ outcome = "Done"
    /\ \A i \in 1..NumSteps : Truthy(Steps[i].validation) /\ pre.satisfied[i]
    /\ \E i \in 1..NumSteps : pre.plan.steps_to_execute[i].executed_at = Some(1)
    /\ {log[k].step : k \in LogAt({"skipped"})} = 1..NumSteps

\* C7: loading what save_to_file wrote gives a plan equal to the saved one in
\* version, required env vars and steps with all their fields.
C7_RoundTrip ==
    LET loaded == PlanFromDoc(PlanToDoc(plan, Now), Val(plan.filename))
    IN  /\ loaded.setmeup_version = plan.setmeup_version
        /\ loaded.required_env_vars = plan.required_env_vars
        /\ loaded.steps_to_execute = plan.steps_to_execute

\* The plan file at path was written by the running (or last) apply.
SavedByThisApply(path) ==
    /\ IsSome(planFiles[path])
    /\ Val(planFiles[path]).generated_at = applies
    /\ LogAt({"save"}) # {}

\* C9 as stated: every apply attempt has re-persisted the plan when it returns.
C9_EveryApplyPersists ==
    Returned => SavedByThisApply(Val(pre.plan.filename))

\* C9 as amended: an apply that passes the checksum validation (and so ends
\* Done or Halted) has re-persisted the plan when it returns; an apply that
\* ends in Validating (Aborted, or the exception of a missing file) returns
\* with the plan store untouched.
C9_PersistsUnlessAborted ==
    Returned =>
        IF outcome \in {"Done", "Halted"}
        THEN SavedByThisApply(Val(pre.plan.filename))
        ELSE planFiles = pre.planFiles /\ LogAt({"save"}) = {}

C9_Witness ==
    /\ Returned
    /\ outcome = "Halted"
    /\ applies = 2
    /\ SavedByThisApply(Val(pre.plan.filename))

\* C10: an apply that ends Done or Halted writes the plan, as its last act, to
\* the path the plan was loaded from (and to no other path) and then returns
\* normally; a failed execute command never makes apply raise.
C10_FailureNotFatal ==
    /\ (Returned /\ outcome \in {"Done", "Halted"}) =>
          LET path == Val(pre.plan.filename)
          IN  /\ log[Len(log)] = Event("save", 0, Some(path))
              /\ plan.filename = Some(path)
              /\ IsSome(planFiles[path])
              /\ Val(planFiles[path]).generated_at = applies
              /\ Val(planFiles[path]).steps_to_execute
                     = [i \in 1..Len(plan.steps_to_execute) |-> PlanStepToDict(plan.steps_to_execute[i])]
              /\ \A q \in PlanPaths \ {path} : planFiles[q] = pre.planFiles[q]
    /\ (Returned /\ LogAt({"failed"}) # {}) => outcome = "Halted"
    /\ (Returned /\ outcome = "Done") => LogAt({"failed"}) = {}

C10_Witness ==
    /\ Returned
    /\ outcome = "Halted"
    /\ pre.plan.filename = Some("other_plan.yaml")
    /\ ExecutedOk # {}
    /\ log[Len(log)] = Event("save", 0, Some("other_plan.yaml"))


\* --------------------------------------------------------- resolver claims
Loaded == cfg.phase = "loaded"

\* The documents that document d inherits from, directly or transitively.
RECURSIVE Closure(_, _)
Closure(docs, S) ==
    LET step == S \cup UNION {{docs[x][k] : k \in 1..Len(docs[x])} : x \in S}
    IN  IF step = S THEN S ELSE Closure(docs, step)

Ancestors(docs, d) == Closure(docs, {docs[d][k] : k \in 1..Len(docs[d])})

\* Override by name: the declarations of later win over those of earlier.
OverrideByName(earlier, later) == later @@ earlier

\* The declarations of a sequence of variables, by name.
ByName(seq) == [n \in {seq[k].name : k \in 1..Len(seq)} |->
                   seq[CHOOSE k \in 1..Len(seq) :
                         seq[k].name = n /\ \A j \in (k + 1)..Len(seq) : seq[j].name # n]]

\* The most-derived declaration of every name visible from document d:
\* inherited documents in declaration order, later over earlier, then d's own.
RECURSIVE MostDerived(_, _)
RECURSIVE MostDerivedInherited(_, _, _)
MostDerivedInherited(docs, d, k) ==
    IF k = 0 THEN <<>>
    ELSE OverrideByName(MostDerivedInherited(docs, d, k - 1), MostDerived(docs, docs[d][k]))

MostDerived(docs, d) ==
    OverrideByName(MostDerivedInherited(docs, d, Len(docs[d])), ByName(OwnEnvVars(d)))

\* C5: for a root document A whose only inherits entry is B, where B's only
\* inherits entry is C and C inherits nothing, the resolved steps are C's own
\* steps, then B's, then A's, each once and in declaration order (on a host
\* where the load finds the manifest of every brew bundle).
C5_TransitiveOrder ==
    (Loaded /\ cfg.config.error # "Exception: file not found") =>
        \A B \in Docs, C \in Docs :
            (/\ cfg.docs[cfg.root] = <<B>>
             /\ cfg.docs[B] = <<C>>
             /\ cfg.docs[C] = <<>>) =>
                /\ ~Failed(cfg.config)
                /\ cfg.config.steps = OwnSteps(C) \o OwnSteps(B) \o OwnSteps(cfg.root)

\* C6: a resolved configuration holds at most one environment variable per
\* name, and the one it holds under a name is the most-derived declaration of
\* that name.
C6_OverrideByName ==
    (Loaded /\ ~Failed(cfg.config)) =>
        \A e \in BagToSet(cfg.config.env_vars) :
            /\ CopiesIn(e, cfg.config.env_vars) = 1
            /\ \A f \in BagToSet(cfg.config.env_vars) : f.name = e.name => f = e
            /\ e = MostDerived(cfg.docs, cfg.root)[e.name]

\* C8: resolving a document that inherits from itself, directly or
\* transitively, ends with a ConfigurationCycle error.
C8_CycleDetected ==
    (Loaded /\ cfg.root \in Ancestors(cfg.docs, cfg.root)) =>
        cfg.config.error = "ConfigurationCycle"


\* ------------------------------------------------------------ the env-var phase
\* The lines of a store_in file, none for a file that does not exist.
LinesOf(sf, path) == IF IsSome(sf[path]) THEN Val(sf[path]) ELSE <<>>

\* The positions of the lines that assign the variable.
Assignments(lines, name) == {k \in 1..Len(lines) : AssignsVar(lines[k], name)}

\* The env-var phase of the running apply is over.
EnvPhaseOver == pc \in {"Executing", "Done", "Halted"}

\* C11: a required variable that has a value in the process environment when
\* apply reaches SettingEnv keeps that value, and the prompt is not asked for
\* a value of it.
C11_SetVarNotPrompted ==
    \A n \in EnvNames :
        Truthy(pre.environ[n]) =>
            /\ environ[n] = pre.environ[n]
            /\ \A k \in LogAt({"input"}) : log[k].res # n

\* C12: each step of SettingEnv for a variable with store_in rewrites the
\* file: where lines assign the variable they are replaced in place by the new
\* assignment and the file keeps its length and its other lines; where none
\* does, the old lines are kept and exactly one assignment of the variable is
\* added, as the last line; the value written is the plan's, or a prompted one,
\* whether or not the process environment already had the variable.
C12_StoreRewritten ==
    [][ (pc = "SettingEnv" /\ idx <= Len(plan.required_env_vars)
            /\ Truthy(plan.required_env_vars[idx].store_in))
        => LET var == plan.required_env_vars[idx]
               path == Val(var.store_in)
               old == LinesOf(storeFiles, path)
               new == LinesOf(storeFiles', path)
               was == Assignments(old, var.name)
               now == Assignments(new, var.name)
           IN  /\ IsSome(storeFiles'[path])
               /\ \A q \in StorePaths \ {path} : storeFiles'[q] = storeFiles[q]
               /\ \A k \in now :
                     new[k][3] \in (IF var.value = None THEN PromptInputs ELSE {Val(var.value)})
               /\ IF was # {}
                  THEN /\ Len(new) = Len(old)
                       /\ now = was
                       /\ \A k \in 1..Len(old) \ was : new[k] = old[k]
                  ELSE /\ Len(new) > Len(old)
                       /\ SubSeq(new, 1, Len(old)) = old
                       /\ now = {Len(new)}
      ]_vars

\* An apply found TOKEN set in the process environment and assigned between
\* other lines of the file, and has replaced that one line, setting nothing in
\* the environment.
C12_Witness ==
    /\ EnvPhaseOver
    /\ Truthy(pre.environ["TOKEN"])
    /\ IsSome(pre.storeFiles["~/.profile"])
    /\ Len(Val(pre.storeFiles["~/.profile"])) = 4
    /\ Val(pre.storeFiles["~/.profile"])[3] = ExportLine("TOKEN", "stored")
    /\ LinesOf(storeFiles, "~/.profile") =
          [Val(pre.storeFiles["~/.profile"]) EXCEPT ![3] = ExportLine("TOKEN", "planned")]
    /\ \A k \in LogAt({"environ_set"}) : log[k].res # "TOKEN"
    /\ \E k \in LogAt({"store_write"}) : log[k].res = "TOKEN"

\* C13: once SettingEnv is over, the value that the store_in file assigns to
\* each required variable with store_in is the variable's value in the process
\* environment.
C13_StoreInSync ==
    EnvPhaseOver =>
        \A i \in 1..Len(plan.required_env_vars) :
            LET var == plan.required_env_vars[i]
            IN  Truthy(var.store_in) =>
                    LET lines == LinesOf(storeFiles, Val(var.store_in))
                    IN  /\ Assignments(lines, var.name) # {}
                        /\ \A k \in Assignments(lines, var.name) :
                              Some(lines[k][3]) = environ[var.name]

\* ----------------------------------------------------------- the execute phase
\* The positions of the log where a validation or execute command was run.
Commands == LogAt({"validate", "execute"})

\* The steps of which the running (or last) apply has run a command.
Started == {log[k].step : k \in Commands}

\* The steps whose execute command the running (or last) apply has run.
Attempted == {log[k].step : k \in LogAt({"execute"})}

\* The steps the running (or last) apply found satisfied and skipped.
SkippedSteps == {log[k].step : k \in LogAt({"skipped"})}

\* C18: a step that apply has reached had its execute command run exactly when
\* its validation command, run at apply time, did not succeed (it has none, or
\* the host did not satisfy it); the skip flag stored in the plan plays no part.
C18_SkipFlagAdvisory ==
    \A i \in Started :
        (i \in Attempted) <=>
            ~(Truthy(pre.plan.steps_to_execute[i].validation) /\ pre.satisfied[i])

\* An apply has executed a step stored with skip = true whose validation
\* failed, and has skipped a step stored with skip = false whose validation
\* succeeded.
C18_Witness ==
    /\ \E i \in Attempted : pre.plan.steps_to_execute[i].skip
    /\ \E j \in SkippedSteps \ Attempted : ~pre.plan.steps_to_execute[j].skip

\* An apply is in its execute loop or has left it and not yet returned: the
\* plan in memory is the one the loop stamps.
InOrAfterLoop == pc \in {"Executing", "Done", "Halted"}

C20_SequentialExecution ==
    /\ Started = 1..Cardinality(Started)
    /\ \A j, k \in Commands : j < k => log[j].step <= log[k].step
    /\ \A k \in Commands :
          log[k].step > 1 =>
              \E m \in 1..(k - 1) :
                  /\ log[m].step = log[k].step - 1
                  /\ \/ log[m].op = "skipped"
                     \/ log[m].op = "execute" /\ log[m].res = Some(0)

\* An apply has gone through the whole plan, skipping one step and executing
\* another.
C20_Witness ==
    /\ pc = "Done"
    /\ Started = 1..NumSteps
    /\ NumSteps > 1
    /\ SkippedSteps # {}
    /\ ExecutedOk # {}

\* ------------------------------------------------------------- the compilation
\* The plan command has resolved the configuration and compiled its plan.
Compiled == Loaded /\ IsSome(cfg.plan)

\* The steps of the compiled plan, and the resolved steps they come from.
CompiledSteps == Val(cfg.plan).steps_to_execute
ResolvedSteps == cfg.config.steps

\* C14: the compiled plan has one plan step per resolved step, in the order of
\* the resolved steps, each the lowering of its resolved step, the steps with
\* skip = true included.
C14_PureProjection ==
    Compiled =>
        /\ Len(CompiledSteps) = Len(ResolvedSteps)
        /\ \A i \in 1..Len(ResolvedSteps) :
              CompiledSteps[i] =
                  ToPlanFormatV1(SetupStep(ResolvedSteps[i], cfg.fs), cfg.fs, cfg.ok)

\* A plan of the steps of several documents in which some steps have
\* skip = true and others have not.
C14_Witness ==
    /\ Compiled
    /\ Len(ResolvedSteps) >= 4
    /\ \E i \in 1..Len(CompiledSteps) : CompiledSteps[i].skip
    /\ \E i \in 1..Len(CompiledSteps) : ~CompiledSteps[i].skip

\* C15: a document without inherits entries that was loaded resolves to its
\* own env_vars and its own steps in declaration order.
C15_NoInheritsIdentity ==
    (Loaded /\ ~Failed(cfg.config) /\ cfg.docs[cfg.root] = <<>>) =>
        /\ cfg.config.env_vars = NewObjects(OwnEnvVars(cfg.root))
        /\ cfg.config.steps = OwnSteps(cfg.root)

\* A document without inherits entries was loaded while another document has
\* some.
C15_Witness ==
    /\ Loaded
    /\ ~Failed(cfg.config)
    /\ cfg.docs[cfg.root] = <<>>
    /\ Len(cfg.config.steps) = 2
    /\ \E d \in Docs : cfg.docs[d] # <<>>

\* C16: a compiled plan step has skip = true exactly when it has a validation
\* command and that command exits zero on the host at lowering time.
C16_SkipAtLowering ==
    Compiled =>
        \A i \in 1..Len(CompiledSteps) :
            CompiledSteps[i].skip <=>
                /\ CompiledSteps[i].validation # None
                /\ HostSatisfies(SetupStep(ResolvedSteps[i], cfg.fs), cfg.ok)

\* A plan with a step whose validation succeeded, a step whose validation
\* failed, and a step without validation on a host where completion checks
\* succeed.
C16_Witness ==
    /\ Compiled
    /\ "check" \in cfg.ok
    /\ \E i \in 1..Len(CompiledSteps) : CompiledSteps[i].skip
    /\ \E i \in 1..Len(CompiledSteps) :
          CompiledSteps[i].validation # None /\ ~CompiledSteps[i].skip
    /\ \E i \in 1..Len(CompiledSteps) :
          CompiledSteps[i].validation = None /\ ~CompiledSteps[i].skip

\* C17: the plan step of a brew bundle names the manifest in the directory of
\* the declaring document as checksum origin and in its execute command, with
\* the checksum of that file; the plan step of a script file names the script
\* in the directory of the declaring document likewise.
C17_PathsOfDeclaringDocument ==
    Compiled =>
        \A i \in 1..Len(ResolvedSteps) :
            LET decl == StepDecl(ResolvedSteps[i])
                dir == DocDir(ResolvedSteps[i].doc)
                st == CompiledSteps[i]
            IN  /\ Truthy(decl.brewfile) =>
                      LET manifest == JoinPath(dir, Val(decl.brewfile))
                      IN  /\ st.checksum.origin = manifest
                          /\ st.checksum.value = Sha256(ContentOf(manifest))
                          /\ st.execute = "brew bundle --file " \o manifest \o " --no-lock"
                /\ (Truthy(decl.script) /\ IsFile(JoinPath(dir, Val(decl.script)), cfg.fs)) =>
                      LET script == JoinPath(dir, Val(decl.script))
                      IN  /\ st.checksum.origin = script
                          /\ st.checksum.value = Sha256(ContentOf(script))
                          /\ st.execute = "/bin/bash " \o script

\* ------------------------------------------------- the reports of the execute loop
\* The steps the running (or last) apply has reported with one of the reports.
Reported(reports) == {log[k].step : k \in LogAt(reports)}

\* C21: a step without validation command that apply has reached was not
\* skipped: its execute command was run; when that exited zero, the step was
\* reported as completed but not verifiable, with no error, and the loop went
\* on past it.
C21_AbsentValidationNeverBlocks ==
    \A i \in Started :
        ~Truthy(pre.plan.steps_to_execute[i].validation) =>
            /\ i \notin SkippedSteps
            /\ i \in Attempted
            /\ i \in ExecutedOk =>
                  /\ i \in Reported({"unverified"})
                  /\ i \notin Reported({"failed", "not_completed", "completed"})
                  /\ InOrAfterLoop => idx > i

\* A step without validation command was executed and the step after it was
\* started.
C21_Witness ==
    \E i \in ExecutedOk :
        /\ pre.plan.steps_to_execute[i].validation = None
        /\ i \in Reported({"unverified"})
        /\ i + 1 \in Started

\* ------------------------------------------------- compiled plans and the pre-check
\* The checksum of the i-th step of the plan that load_from_file builds from
\* the document the plan command has saved.
SavedChecksum(i) == PlanStep(Val(cfg.document).steps_to_execute[i]).checksum

\* C22: on the host the plan was compiled on, with every file as it was, the
\* pre-check of apply finds the checksum of every step of the saved plan equal
\* to the one recomputed from its origin and checksum type.
C22_NoFalseDrift ==
    Compiled =>
        \A i \in 1..Len(CompiledSteps) :
            TestIfChecksumsEqual(SavedChecksum(i), cfg.fs) = "equal"

\* A compiled plan with the step of a brew bundle, the step of a script file
\* and the step of an inline command.
C22_Witness ==
    /\ Compiled
    /\ \E i \in 1..Len(CompiledSteps) :
          /\ SavedChecksum(i).checksum_type = TYPE_FILE
          /\ SetupStep(ResolvedSteps[i], cfg.fs).type = "brewfile"
    /\ \E i \in 1..Len(CompiledSteps) :
          /\ SavedChecksum(i).checksum_type = TYPE_FILE
          /\ SetupStep(ResolvedSteps[i], cfg.fs).type = "script"
    /\ \E i \in 1..Len(CompiledSteps) : SavedChecksum(i).checksum_type = TYPE_STRING

\* ------------------------------------------------------- store_value as a function
\* The lines of a file that are no assignment of the variable, in their order.
OtherLines(lines, name) ==
    SelectSeq(lines, LAMBDA l : ~(Len(l) = 3 /\ l[1] = "export" /\ l[2] = name))

\* C23: each store_value of SettingEnv leaves a file that a second store_value
\* of the same variable and value would leave as it is, and keeps every line
\* that is no assignment of that variable, the assignments of variables with a
\* longer name included, as it was and where it was among those lines (a blank
\* line may follow them where the assignment is appended).
C23_StoreValueIdempotent ==
    [][ (pc = "SettingEnv" /\ idx <= Len(plan.required_env_vars)
            /\ Truthy(plan.required_env_vars[idx].store_in))
        => LET var == plan.required_env_vars[idx]
               path == Val(var.store_in)
               old == LinesOf(storeFiles, path)
               new == LinesOf(storeFiles', path)
           IN  /\ \A value \in PromptInputs \cup {"planned", "vi"} :
                     storeFiles' = StoreValue(var, value, storeFiles)
                         => StoreValue(var, value, storeFiles') = storeFiles'
               /\ \E value \in PromptInputs \cup {"planned", "vi"} :
                     storeFiles' = StoreValue(var, value, storeFiles)
               /\ OtherLines(new, var.name) \in
                     {OtherLines(old, var.name), OtherLines(old, var.name) \o <<BlankLine>>}
      ]_vars

\* A second apply has stored TOKEN again in a file that also assigns TOKEN2,
\* and the file is as the first apply left it.
C23_Witness ==
    /\ EnvPhaseOver
    /\ applies = 2
    /\ \E k \in LogAt({"store_write"}) : log[k].res = "TOKEN"
    /\ storeFiles = pre.storeFiles
    /\ \E k \in 1..Len(LinesOf(storeFiles, "~/.profile")) :
          LinesOf(storeFiles, "~/.profile")[k] = ExportLine("TOKEN2", "x")
    /\ Assignments(LinesOf(storeFiles, "~/.profile"), "TOKEN") # {}

\* ------------------------------------------------------------ the frame of apply
\* Two plan steps, or step mappings, agree in everything but executed_at.
SameButExecutedAt(a, b) ==
    /\ a.name = b.name
    /\ a.description = b.description
    /\ a.checksum.value = b.checksum.value
    /\ a.checksum.origin = b.checksum.origin
    /\ a.checksum.checksum_type = b.checksum.checksum_type
    /\ a.execute = b.execute
    /\ a.validation = b.validation
    /\ a.skip = b.skip

\* C24: when apply is Done, Halted or Aborted, the plan has the steps it had
\* when the apply started, in their order, each with its name, description,
\* checksum, execute command, validation command and skip flag; and so has the
\* plan document that a Done or Halted apply has saved.
C24_ApplyFrame ==
    /\ pc \in {"Done", "Halted", "Aborted"} =>
          /\ Len(Steps) = Len(pre.plan.steps_to_execute)
          /\ \A i \in 1..Len(Steps) :
                SameButExecutedAt(Steps[i], pre.plan.steps_to_execute[i])
    /\ (Returned /\ outcome \in {"Done", "Halted"}) =>
          LET doc == Val(planFiles[Val(pre.plan.filename)])
          IN  /\ Len(doc.steps_to_execute) = Len(pre.plan.steps_to_execute)
              /\ \A i \in 1..Len(doc.steps_to_execute) :
                    SameButExecutedAt(doc.steps_to_execute[i], pre.plan.steps_to_execute[i])

\* A Done apply has stamped a step and skipped another, and has returned.
C24_Witness ==
    /\ Returned
    /\ outcome = "Done"
    /\ SkippedSteps # {}
    /\ \E i \in ExecutedOk :
          pre.plan.steps_to_execute[i].executed_at = None

\* ----------------------------------------------------- validation after execution
\* The steps whose execute command exited zero in the running (or last) apply
\* and whose validation command failed when it was run again afterwards.
FailedAfterwards ==
    {i \in ExecutedOk : /\ Truthy(pre.plan.steps_to_execute[i].validation)
                        /\ ~satisfied[i]}

\* C25: a step whose execute command exited zero and whose validation failed
\* afterwards is reported as an error, and the loop goes on past it; apply is
\* Halted only at a step whose execute command, the last command run, exited
\* nonzero.
C25_FailedValidationGoesOn ==
    /\ \A i \in FailedAfterwards :
          /\ i \in Reported({"not_completed"})
          /\ i \notin Reported({"failed"})
          /\ InOrAfterLoop => idx > i
    /\ pc = "Halted" =>
          /\ Commands # {}
          /\ \A k \in Commands :
                (\A j \in Commands : j <= k) =>
                    /\ log[k].op = "execute"
                    /\ log[k].res # Some(0)
                    /\ log[k].step = idx

\* After a step whose validation failed after its execution, the next step
\* was executed too and the apply was Done.
C25_Witness ==
    /\ pc = "Done"
    /\ \E i \in FailedAfterwards : i + 1 \in ExecutedOk

\* ------------------------------------------------------------------ termination
\* No step's execute command was run twice by the running (or last) apply.
ExecutedAtMostOnce ==
    \A j, k \in LogAt({"execute"}) : log[j].step = log[k].step => j = k

\* An apply that is in a terminal state stays there until it returns.
OneTerminalState ==
    [][ (pc \in {"Aborted", "Halted", "Done", "Raised"}) => (pc' \in {pc, "idle"}) ]_vars

\* C26 as stated: every apply that was started reaches Aborted, Halted or
\* Done, and only one of them, having run the execute command of each step at
\* most once.
C26_ReachesTerminalState ==
    /\ (pc = "Validating") ~> (pc \in {"Aborted", "Halted", "Done"})
    /\ OneTerminalState
    /\ []ExecutedAtMostOnce

\* C26, amended: every apply that was started reaches Aborted, Halted or Done,
\* or is left by the exception of the checksum service for a file that is
\* missing, and only one of these, having run the execute command of each step
\* at most once.
C26_Terminates ==
    /\ (pc = "Validating") ~> (pc \in {"Aborted", "Halted", "Done", "Raised"})
    /\ OneTerminalState
    /\ []ExecutedAtMostOnce

\* An apply is Done with every step of the plan executed.
C26_Witness ==
    /\ pc = "Done"
    /\ ExecutedOk = 1..NumSteps
    /\ NumSteps > 1

==============================================================================
